---- MODULE Spec2Model ----
(***************************************************************************)
(* Lesson aggregate persistence (src/src/model/lesson.rs), the recurrence  *)
(* store (src/src/model/repeat.rs) and the authentication middleware       *)
(* (src/src/middleware/authentication.rs) as a state machine.              *)
(*                                                                         *)
(* The relational store is PostgreSQL reached through sqlx.  `db.begin()`  *)
(* opens a transaction at the default isolation level (READ COMMITTED):    *)
(* every statement reads what is committed when the statement runs plus    *)
(* the transaction's own writes, the writes of a transaction become        *)
(* visible to others atomically at commit, and a transaction value that is *)
(* dropped without commit (an early return through `?`) rolls back.        *)
(*                                                                         *)
(* Option<T> is modelled as a set: None == {} and Some(x) == {x}.          *)
(* Vec<T> of recurrence rows is modelled as the set of its elements.       *)
(***************************************************************************)
EXTENDS Integers, Sequences, FiniteSets, TLC

(***************************************************************************)
(* Bounds and domains                                                      *)
(***************************************************************************)
\* number of lesson ids the store can generate
MaxLessons == 2
\* calendar days 0..MaxDate can be queried
MaxDate == 1

\* the inbound requests, named in order of arrival
RequestOrder == <<"r1", "r2", "r3">>
Requests == {RequestOrder[i] : i \in DOMAIN RequestOrder}

\* a LessonID that the store never generated
UnknownId == 0
\* the ids the Lesson table generates, in order
LessonID == 1..MaxLessons
\* the ids a caller can present
AnyLessonID == {UnknownId} \cup LessonID
AccountID == {"a1", "a2"}
TeacherID == {"T1"}
Titles == {"t1", "t2"}
Descriptions == {"d1"}
Dates == 0..MaxDate

None == {}
Some(x) == {x}

\* the four recurrence kinds, in the order the aggregate manager visits them
Kinds == <<"singles", "daily", "weekly", "monthly">>
KindSet == {Kinds[i] : i \in DOMAIN Kinds}
NoRows == [k \in KindSet |-> {}]

(***************************************************************************)
(* State                                                                   *)
(***************************************************************************)
VARIABLES
    Lesson,            \* table Lesson: id -> Option<[title, description]>
    Repeats,           \* the four recurrence tables: kind -> set of rows
    TeacherLesson,     \* table TeacherLesson: set of [lesson_id, teacher_id]
    LessonPermission,  \* table LessonPermission: set of grants
    nextId,            \* the next id the Lesson table generates
    req                \* per request: pipeline position, transaction, results

vars == <<Lesson, Repeats, TeacherLesson, LessonPermission, nextId, req>>
db == <<Lesson, Repeats, TeacherLesson, LessonPermission>>

\* a transaction's uncommitted writes and the row locks they hold
NoTx ==
    [newLesson |-> {}, upd |-> {}, setTitle |-> None, setDescription |-> None,
     del |-> NoRows, ins |-> NoRows, perm |-> {}, keyshare |-> {}]

NoArgs ==
    [lesson_id |-> UnknownId, title |-> None, description |-> None, reps |-> NoRows,
     owner |-> None, date |-> 0, account_id |-> None, permission_type |-> "none"]

NoAcc ==
    [k |-> 0, id |-> UnknownId, base |-> None, teachers |-> {}, reps |-> NoRows,
     ids |-> {}, res |-> <<>>, snap |-> {}]

NewRequest ==
    [pc |-> "new", headers |-> "none", extensions |-> {}, forwarded |-> None,
     response |-> None, op |-> "none", args |-> NoArgs, tx |-> NoTx,
     acc |-> NoAcc, result |-> None, after |-> {}]

Init ==
    /\ Lesson = [l \in AnyLessonID |-> None]
    /\ Repeats = NoRows
    /\ TeacherLesson = {}
    /\ LessonPermission = {}
    /\ nextId = 1
    /\ req = [r \in Requests |-> NewRequest]

(***************************************************************************)
(* Request pipeline positions                                              *)
(***************************************************************************)
Finished(r) == req[r].pc \in {"rejected", "panicked", "done"}
Active(r) == req[r].pc \notin {"new", "rejected", "panicked", "done"}
Quiet == \A r \in Requests : ~Active(r)
DoneRequests == {r \in Requests : Finished(r)}

\* the i-th request arrives only after the (i-1)-th has arrived
Arrived(i) == \A j \in DOMAIN RequestOrder : j = i => req[RequestOrder[j]].pc # "new"
NextToArrive(r) ==
    \E i \in DOMAIN RequestOrder :
        /\ RequestOrder[i] = r
        /\ req[r].pc = "new"
        /\ Arrived(i - 1)

Ok(v) == Some([ok |-> TRUE, val |-> v])
Err(e) == Some([ok |-> FALSE, val |-> e])
\* the error of request r's current statement
Failure(r, error) == Err([error |-> error, at |-> req[r].pc, k |-> req[r].acc.k])

(***************************************************************************)
(* Authentication middleware (middleware/authentication.rs)                *)
(***************************************************************************)
\* what a request's headers can carry: no credential, one that fails
\* verification, or a token issued to an account (named by the account)
Credentials == {"missing", "invalid"} \cup AccountID

\* crate::token: verify(rawToken) -> Result<Claim, AuthError>
authenticate_claim_from_headers(headers) ==
    IF headers \in AccountID
    THEN [ok |-> TRUE, val |-> [inner |-> [account_id |-> headers]]]
    ELSE [ok |-> FALSE, val |-> "AuthError"]

\* the request rebuilt from the parts whose extensions were just written
ServiceRequest(headers, extensions) ==
    [headers |-> headers, extensions |-> extensions]

\* the number of live handles on the HttpRequest of an incoming request:
\* the one `call` owns, and one more when another stage kept a clone
SoleHandle == 1
HandleCounts == {SoleHandle, SoleHandle + 1}

\* ServiceRequest::from_parts(http_req, payload): Ok(request) when http_req
\* is the only handle, else the parts are handed back as Err
from_parts(headers, extensions, strong_count) ==
    IF strong_count = SoleHandle
    THEN [ok |-> TRUE, val |-> ServiceRequest(headers, extensions)]
    ELSE [ok |-> FALSE, val |-> <<headers, extensions>>]

\* AuthenticationMiddleware::call with a rejecting Err arm that forwards
call_forwarding_unverified(r, headers, strong_count) ==
    /\ NextToArrive(r)
    /\ req' = [req EXCEPT ![r].headers = headers,
                          ![r].forwarded = Some(ServiceRequest(headers, {})),
                          ![r].pc = "forwarded"]
    /\ UNCHANGED <<db, nextId>>

\* AuthenticationMiddleware::call whose Ok arm rebuilds the request from
\* parts taken before the extensions were written
call_without_attachment(r, headers, strong_count) ==
    /\ NextToArrive(r)
    /\ LET claim == authenticate_claim_from_headers(headers) IN
       IF claim.ok
       THEN req' = [req EXCEPT ![r].headers = headers,
                               ![r].forwarded = Some(ServiceRequest(headers, {})),
                               ![r].pc = "forwarded"]
       ELSE req' = [req EXCEPT ![r].headers = headers,
                               ![r].response = Some(claim.val),
                               ![r].pc = "rejected"]
    /\ UNCHANGED <<db, nextId>>

\* AuthenticationMiddleware::call
call(r, headers, strong_count) ==
    /\ NextToArrive(r)
    /\ LET claim == authenticate_claim_from_headers(headers) IN
       IF claim.ok
       THEN LET application_claim == claim.val
                extensions == {[account_id |-> application_claim.inner.account_id],
                               [claim |-> application_claim]}
                new_req == from_parts(headers, extensions, strong_count)
            IN IF new_req.ok
               THEN req' = [req EXCEPT ![r].headers = headers,
                                       ![r].extensions = extensions,
                                       ![r].forwarded = Some(new_req.val),
                                       ![r].pc = "forwarded"]
               ELSE req' = [req EXCEPT ![r].headers = headers,
                                       ![r].extensions = extensions,
                                       ![r].pc = "panicked"]
       ELSE req' = [req EXCEPT ![r].headers = headers,
                               ![r].response = Some(claim.val),
                               ![r].pc = "rejected"]
    /\ UNCHANGED <<db, nextId>>

(***************************************************************************)
(* The wrapped service: a handler that calls the aggregate manager or the  *)
(* occurrence resolver on behalf of the authenticated account              *)
(***************************************************************************)
\* the account id the handler reads from the forwarded request
AccountOf(r) ==
    {e.account_id : e \in {x \in UNION {q.extensions : q \in req[r].forwarded} :
                              "account_id" \in DOMAIN x}}

\* position of recurrence kind k in Kinds
KindIndex(k) == CHOOSE i \in DOMAIN Kinds : Kinds[i] = k

\* the first present recurrence argument of an Update after position i, if any
NextPresent(reps, i) ==
    {j \in DOMAIN Kinds : j > i /\ reps[Kinds[j]] # None
                          /\ \A m \in DOMAIN Kinds : (m > i /\ m < j) => reps[Kinds[m]] = None}

\* where Update goes after the statement for kind position i (0: the base row)
UpdateAfter(reps, i) ==
    IF NextPresent(reps, i) = {}
    THEN [pc |-> "update:commit", k |-> 0]
    ELSE [pc |-> "update:delete", k |-> CHOOSE j \in NextPresent(reps, i) : TRUE]

\* the first storage statement of each operation after db.begin()
FirstPc(op, args) ==
    CASE op = "create" -> [pc |-> "create:base", k |-> 0]
      [] op = "by_id" -> [pc |-> "by_id:base", k |-> 0]
      [] op = "update" ->
            IF args.title # None \/ args.description # None
            THEN [pc |-> "update:base", k |-> 0]
            ELSE UpdateAfter(args.reps, 0)
      [] op = "delete" -> [pc |-> "delete", k |-> 0]
      [] op = "for_date" -> [pc |-> "for_date:ids", k |-> 0]
      [] op = "save_permission" -> [pc |-> "save_permission", k |-> 0]
      [] op = "add_teacher" -> [pc |-> "add_teacher", k |-> 0]

\* ids still to be generated must be left for every Create that has begun
CanBegin(op) ==
    op = "create" =>
        nextId + Cardinality({q \in Requests : req[q].pc = "create:base"}) <= MaxLessons

\* a caller presents an id that some Create generated, or an unknown one
Presentable(lesson_id) == lesson_id = UnknownId \/ lesson_id < nextId

\* the grants a statement of r's transaction sees
VisiblePermission(r) == LessonPermission \cup req[r].tx.perm

(***************************************************************************)
(* Permission resolver (SQL functions of the schema)                       *)
(***************************************************************************)
\* levelFor(accountId, lessonId), from the grants the statement sees
lesson_permission_for(r, lesson_id, accounts) ==
    LET grants == {g \in VisiblePermission(r) :
                      g.lesson_id = lesson_id /\ g.account_id \in accounts}
    IN IF \E g \in grants : g.permission_type = "ReadWrite" THEN "ReadWrite"
       ELSE IF grants # {} THEN "Read"
       ELSE "none"

\* read-write implies read
is_read_permission(level) == level \in {"Read", "ReadWrite"}

\* read-write only
is_write_permission(level) == level = "ReadWrite"

\* the gate that lets readers write
write_permitted_for_readers(r, op, lesson_id) ==
    \/ op \notin {"update", "delete"}
    \/ Lesson[lesson_id] = None
    \/ is_read_permission(lesson_permission_for(r, lesson_id, AccountOf(r)))

\* the gate between the handler and the aggregate manager: a write to a
\* lesson that exists needs the caller's level to be read-write
write_permitted(r, op, lesson_id) ==
    \/ op \notin {"update", "delete"}
    \/ Lesson[lesson_id] = None
    \/ is_write_permission(lesson_permission_for(r, lesson_id, AccountOf(r)))

\* the handler of request r calls operation inv.op with arguments inv.args,
\* or rejects a write the caller is not permitted; the owner of a Create and
\* the account of a resolveForDate is the caller
Invoke(r, inv) ==
    /\ req[r].pc = "forwarded"
    /\ req[r].forwarded # None
    /\ CanBegin(inv.op)
    /\ Presentable(inv.args.lesson_id)
    /\ LET args == [inv.args EXCEPT !.owner = IF inv.op = "create" THEN AccountOf(r) ELSE None,
                                    !.account_id = IF inv.op = "for_date" THEN AccountOf(r) ELSE @]
           first == FirstPc(inv.op, args)
       IN IF write_permitted(r, inv.op, args.lesson_id)
          THEN req' = [req EXCEPT ![r].op = inv.op,
                                  ![r].args = args,
                                  ![r].pc = first.pc,
                                  ![r].acc = [NoAcc EXCEPT !.k = first.k],
                                  ![r].after = DoneRequests]
          ELSE req' = [req EXCEPT ![r].op = inv.op,
                                  ![r].args = args,
                                  ![r].pc = "done",
                                  ![r].result = Failure(r, "PermissionDenied"),
                                  ![r].after = DoneRequests]
    /\ UNCHANGED <<db, nextId>>

(***************************************************************************)
(* Transactions                                                            *)
(***************************************************************************)
\* the rows of kind k a statement of r's transaction sees for lesson l
VisibleRows(r, k, l) ==
    {row \in (Repeats[k] \ req[r].tx.del[k]) \cup req[r].tx.ins[k] : row.lesson_id = l}

\* the Lesson row a statement of r's transaction sees for id l
VisibleBase(r, l) ==
    LET own == {n \in req[r].tx.newLesson : n.id = l} IN
    IF own # {}
    THEN {[title |-> n.title, description |-> n.description] : n \in own}
    ELSE Lesson[l]

\* the Lesson table after tx commits: inserted rows appear, SET clauses apply
CommitLesson(tx) ==
    [l \in AnyLessonID |->
        LET own == {n \in tx.newLesson : n.id = l} IN
        IF own # {}
        THEN {[title |-> n.title, description |-> n.description] : n \in own}
        ELSE IF l \in tx.upd
        THEN {[title |-> IF tx.setTitle = None THEN b.title
                         ELSE CHOOSE t \in tx.setTitle : TRUE,
               description |-> IF tx.setDescription = None THEN b.description
                               ELSE CHOOSE d \in tx.setDescription : TRUE] : b \in Lesson[l]}
        ELSE Lesson[l]]

CommitRepeats(tx) == [k \in KindSet |-> (Repeats[k] \ tx.del[k]) \cup tx.ins[k]]

\* transaction.commit(): the writes of r's transaction become visible at once
Commit(r) ==
    /\ Lesson' = CommitLesson(req[r].tx)
    /\ Repeats' = CommitRepeats(req[r].tx)
    /\ LessonPermission' = LessonPermission \cup req[r].tx.perm
    /\ UNCHANGED TeacherLesson

\* request r ends with `result`; its locals and its transaction value are
\* dropped
Return(r, result) ==
    [req EXCEPT ![r].pc = "done", ![r].tx = NoTx, ![r].acc = NoAcc,
                ![r].result = result]

\* the failing path commits the writes made so far
StorageError_commits(r) ==
    /\ Active(r)
    /\ req[r].pc # "forwarded"
    /\ req' = Return(r, Failure(r, "StorageError"))
    /\ Commit(r)
    /\ UNCHANGED nextId

\* a storage call of an open transaction fails: `?` returns the error and
\* the dropped transaction rolls back
StorageError(r) ==
    /\ Active(r)
    /\ req[r].pc # "forwarded"
    /\ req' = Return(r, Failure(r, "StorageError"))
    /\ UNCHANGED <<db, nextId>>

(***************************************************************************)
(* Recurrence store (model/repeat.rs), one table per kind                  *)
(***************************************************************************)
\* Repeat::of_lesson_in_transaction: SELECT ... WHERE lesson_id = $1
of_lesson_in_transaction(r, k, lesson_id) ==
    {row.val : row \in VisibleRows(r, k, lesson_id)}

\* the foreign key lesson_id -> Lesson(id): the parent row must exist
ForeignKeyOk(r, lesson_id) == VisibleBase(r, lesson_id) # None

\* an INSERT that binds no row
insert_in_transaction_nothing(tx, r, k, repeats, lesson_id) == tx

\* Repeat::insert_in_transaction: no statement for an empty input, else one
\* bulk INSERT, which share-locks the committed parent row
insert_in_transaction(tx, r, k, repeats, lesson_id) ==
    IF repeats = {}
    THEN tx
    ELSE [tx EXCEPT !.ins[k] = @ \cup {[lesson_id |-> lesson_id, val |-> v, by |-> r] :
                                          v \in repeats},
                    !.keyshare = @ \cup {l \in {lesson_id} : Lesson[l] # None}]

\* a DELETE without its WHERE clause
delete_in_transaction_everywhere(tx, k, targets) ==
    [tx EXCEPT !.del[k] = Repeats[k], !.ins[k] = {}]

\* a DELETE that removes nothing
delete_in_transaction_skipped(tx, k, targets) == tx

\* Repeat::delete_in_transaction: DELETE ... WHERE lesson_id = $1 applied to
\* the rows `targets` the statement selected
delete_in_transaction(tx, k, targets) ==
    [tx EXCEPT !.del[k] = @ \cup (targets \cap Repeats[k]),
               !.ins[k] = @ \ targets]

\* some target row is locked by another open transaction that deleted it
RowsLocked(r, k, targets) ==
    \E q \in Requests \ {r} : targets \cap req[q].tx.del[k] # {}

(***************************************************************************)
(* Lesson aggregate manager (model/lesson.rs)                              *)
(***************************************************************************)
\* struct Lesson
MakeLesson(id, base, reps, teachers) ==
    [id |-> id, title |-> base.title, description |-> base.description,
     singles |-> reps["singles"], weekly |-> reps["weekly"],
     daily |-> reps["daily"], monthly |-> reps["monthly"],
     teachers |-> teachers]

\* Lesson::teachers_of_lesson_by_id_in_transaction
teachers_of_lesson_by_id_in_transaction(r, lesson_id) ==
    {t.teacher_id : t \in {x \in TeacherLesson : x.lesson_id = lesson_id}}

\* ---- Lesson::by_id ----
by_id_base(r) ==
    /\ req[r].pc = "by_id:base"
    /\ req' = [req EXCEPT ![r].acc.base = VisibleBase(r, req[r].args.lesson_id),
                          ![r].pc = "by_id:teachers"]
    /\ UNCHANGED <<db, nextId>>

by_id_teachers(r) ==
    /\ req[r].pc = "by_id:teachers"
    /\ LET teachers == teachers_of_lesson_by_id_in_transaction(r, req[r].args.lesson_id) IN
       IF req[r].acc.base = None
       THEN req' = Return(r, Ok(None))
       ELSE req' = [req EXCEPT ![r].acc.teachers = teachers,
                               ![r].acc.k = 1,
                               ![r].pc = "by_id:repeats"]
    /\ UNCHANGED <<db, nextId>>

by_id_repeats(r) ==
    /\ req[r].pc = "by_id:repeats"
    /\ LET k == Kinds[req[r].acc.k]
           rows == of_lesson_in_transaction(r, k, req[r].args.lesson_id)
       IN req' = [req EXCEPT ![r].acc.reps[k] = rows,
                             ![r].acc.k = IF @ < Len(Kinds) THEN @ + 1 ELSE 0,
                             ![r].pc = IF req[r].acc.k < Len(Kinds)
                                       THEN "by_id:repeats" ELSE "by_id:commit"]
    /\ UNCHANGED <<db, nextId>>

by_id_commit(r) ==
    /\ req[r].pc = "by_id:commit"
    /\ LET base == CHOOSE b \in req[r].acc.base : TRUE
           res == MakeLesson(req[r].args.lesson_id, base, req[r].acc.reps,
                             req[r].acc.teachers)
       IN req' = Return(r, Ok(Some(res)))
    /\ UNCHANGED <<db, nextId>>

\* ---- Lesson::create ----
\* the INSERT INTO Lesson executed on the pool instead of the transaction
create_base_on_pool(r) ==
    /\ req[r].pc = "create:base"
    /\ nextId <= MaxLessons
    /\ Lesson' = [Lesson EXCEPT ![nextId] = Some([title |-> req[r].args.title,
                                                  description |-> req[r].args.description])]
    /\ req' = [req EXCEPT ![r].acc.id = nextId,
                          ![r].acc.k = 1,
                          ![r].pc = "create:repeats"]
    /\ nextId' = nextId + 1
    /\ UNCHANGED <<Repeats, TeacherLesson, LessonPermission>>

create_base(r) ==
    /\ req[r].pc = "create:base"
    /\ nextId <= MaxLessons
    /\ req' = [req EXCEPT ![r].tx.newLesson = {[id |-> nextId,
                                                title |-> req[r].args.title,
                                                description |-> req[r].args.description]},
                          ![r].acc.id = nextId,
                          ![r].acc.k = 1,
                          ![r].pc = "create:repeats"]
    /\ nextId' = nextId + 1
    /\ UNCHANGED db

create_repeats(r) ==
    /\ req[r].pc = "create:repeats"
    /\ LET k == Kinds[req[r].acc.k] IN
       req' = [req EXCEPT ![r].tx = insert_in_transaction(@, r, k, req[r].args.reps[k],
                                                          req[r].acc.id),
                          ![r].acc.k = IF @ < Len(Kinds) THEN @ + 1 ELSE 0,
                          ![r].pc = IF req[r].acc.k < Len(Kinds)
                                    THEN "create:repeats" ELSE "create:permission"]
    /\ UNCHANGED <<db, nextId>>

\* LessonPermission::save_in_transaction(transaction, permission_type, id, owner)
save_in_transaction(tx, permission_type, lesson_id, accounts) ==
    [tx EXCEPT !.perm = @ \cup {[lesson_id |-> lesson_id, account_id |-> a,
                                 permission_type |-> permission_type] : a \in accounts}]

\* the owner grant saved with PermissionType::Read
create_permission_read(r) ==
    /\ req[r].pc = "create:permission"
    /\ req' = [req EXCEPT ![r].tx = save_in_transaction(@, "Read", req[r].acc.id,
                                                        req[r].args.owner),
                          ![r].pc = "create:commit"]
    /\ UNCHANGED <<db, nextId>>

create_permission(r) ==
    /\ req[r].pc = "create:permission"
    /\ req' = [req EXCEPT ![r].tx = save_in_transaction(@, "ReadWrite", req[r].acc.id,
                                                        req[r].args.owner),
                          ![r].pc = "create:commit"]
    /\ UNCHANGED <<db, nextId>>

create_commit(r) ==
    /\ req[r].pc = "create:commit"
    /\ Commit(r)
    /\ LET base == [title |-> req[r].args.title, description |-> req[r].args.description]
           res == MakeLesson(req[r].acc.id, base, req[r].args.reps, {})
       IN req' = Return(r, Ok(res))
    /\ UNCHANGED nextId

\* ---- Lesson::update ----
\* the Lesson row of lesson_id is locked by another open transaction
BaseLocked(r, lesson_id) ==
    \E q \in Requests \ {r} : lesson_id \in req[q].tx.upd

\* the (Some(_), None) arm sets both columns and binds no description
update_base_both_columns(r) ==
    /\ req[r].pc = "update:base"
    /\ LET lesson_id == req[r].args.lesson_id
           next == UpdateAfter(req[r].args.reps, 0)
       IN /\ ~BaseLocked(r, lesson_id)
          /\ req' = [req EXCEPT ![r].tx.upd = IF Lesson[lesson_id] # None
                                              THEN {lesson_id} ELSE {},
                                ![r].tx.setTitle = req[r].args.title,
                                ![r].tx.setDescription =
                                    IF req[r].args.description = None
                                    THEN Some(None) ELSE req[r].args.description,
                                ![r].acc.k = next.k,
                                ![r].pc = next.pc]
    /\ UNCHANGED <<db, nextId>>

\* UPDATE Lesson SET <setters> WHERE id = $1; it waits for the row lock
update_base(r) ==
    /\ req[r].pc = "update:base"
    /\ LET lesson_id == req[r].args.lesson_id
           next == UpdateAfter(req[r].args.reps, 0)
       IN /\ ~BaseLocked(r, lesson_id)
          /\ req' = [req EXCEPT ![r].tx.upd = IF Lesson[lesson_id] # None
                                              THEN {lesson_id} ELSE {},
                                ![r].tx.setTitle = req[r].args.title,
                                ![r].tx.setDescription = req[r].args.description,
                                ![r].acc.k = next.k,
                                ![r].pc = next.pc]
    /\ UNCHANGED <<db, nextId>>

\* Repeat::update_in_transaction, first half: the DELETE runs at once, or
\* keeps the rows it selected and waits while another transaction holds
\* a lock on one of them
update_delete(r) ==
    /\ req[r].pc = "update:delete"
    /\ LET k == Kinds[req[r].acc.k]
           targets == VisibleRows(r, k, req[r].args.lesson_id)
       IN IF RowsLocked(r, k, targets)
          THEN req' = [req EXCEPT ![r].acc.snap = targets,
                                  ![r].pc = "update:blocked"]
          ELSE req' = [req EXCEPT ![r].tx = delete_in_transaction(@, k, targets),
                                  ![r].pc = "update:insert"]
    /\ UNCHANGED <<db, nextId>>

\* the waiting DELETE goes on once the locks are released; of the rows it
\* selected it removes those that still exist
update_resume(r) ==
    /\ req[r].pc = "update:blocked"
    /\ LET k == Kinds[req[r].acc.k] IN
       /\ ~RowsLocked(r, k, req[r].acc.snap)
       /\ req' = [req EXCEPT ![r].tx = delete_in_transaction(@, k, req[r].acc.snap),
                             ![r].acc.snap = {},
                             ![r].pc = "update:insert"]
    /\ UNCHANGED <<db, nextId>>

\* Repeat::update_in_transaction, second half: the INSERT of the supplied set
\* the INSERT of a replacement without the foreign key on lesson_id
update_insert_unchecked(r) ==
    /\ req[r].pc = "update:insert"
    /\ LET k == Kinds[req[r].acc.k]
           lesson_id == req[r].args.lesson_id
           repeats == CHOOSE v \in req[r].args.reps[k] : TRUE
           next == UpdateAfter(req[r].args.reps, req[r].acc.k)
       IN req' = [req EXCEPT ![r].tx.ins[k] =
                                 @ \cup {[lesson_id |-> lesson_id, val |-> v, by |-> r] :
                                            v \in repeats},
                             ![r].acc.k = next.k,
                             ![r].pc = next.pc]
    /\ UNCHANGED <<db, nextId>>

update_insert(r) ==
    /\ req[r].pc = "update:insert"
    /\ LET k == Kinds[req[r].acc.k]
           lesson_id == req[r].args.lesson_id
           repeats == CHOOSE v \in req[r].args.reps[k] : TRUE
           next == UpdateAfter(req[r].args.reps, req[r].acc.k)
       IN IF repeats # {} /\ ~ForeignKeyOk(r, lesson_id)
          THEN req' = Return(r, Failure(r, "ForeignKeyViolation"))
          ELSE req' = [req EXCEPT ![r].tx = insert_in_transaction(@, r, k, repeats,
                                                                  lesson_id),
                                  ![r].acc.k = next.k,
                                  ![r].pc = next.pc]
    /\ UNCHANGED <<db, nextId>>

update_commit(r) ==
    /\ req[r].pc = "update:commit"
    /\ Commit(r)
    /\ req' = Return(r, Ok("unit"))
    /\ UNCHANGED nextId

\* ---- Lesson::delete ----
\* an open transaction holds a lock on the Lesson row or on a row that the
\* cascade removes
LessonLocked(r, lesson_id) ==
    \E q \in Requests \ {r} :
        \/ lesson_id \in req[q].tx.upd \cup req[q].tx.keyshare
        \/ \E k \in KindSet : \E row \in req[q].tx.del[k] : row.lesson_id = lesson_id

\* ON DELETE CASCADE of the tables that reference Lesson(id)
CascadeRepeats(lesson_id) ==
    [k \in KindSet |-> {row \in Repeats[k] : row.lesson_id # lesson_id}]
CascadeTeacherLesson(lesson_id) == {x \in TeacherLesson : x.lesson_id # lesson_id}
CascadeLessonPermission(lesson_id) == {x \in LessonPermission : x.lesson_id # lesson_id}

\* a Delete that leaves the base row in place
delete_keeping_base(r) ==
    /\ req[r].pc = "delete"
    /\ req' = Return(r, Ok("unit"))
    /\ UNCHANGED <<db, nextId>>

\* a Delete that reports an error when the statement affected no row
delete_requiring_row(r) ==
    /\ req[r].pc = "delete"
    /\ LET lesson_id == req[r].args.lesson_id IN
       /\ ~LessonLocked(r, lesson_id)
       /\ Lesson' = [Lesson EXCEPT ![lesson_id] = None]
       /\ Repeats' = CascadeRepeats(lesson_id)
       /\ TeacherLesson' = CascadeTeacherLesson(lesson_id)
       /\ LessonPermission' = CascadeLessonPermission(lesson_id)
       /\ req' = Return(r, IF Lesson[lesson_id] = None
                           THEN Failure(r, "RowNotFound") ELSE Ok("unit"))
    /\ UNCHANGED nextId

\* DELETE FROM Lesson WHERE id = $1, executed on the pool (autocommit)
delete(r) ==
    /\ req[r].pc = "delete"
    /\ LET lesson_id == req[r].args.lesson_id IN
       /\ ~LessonLocked(r, lesson_id)
       /\ Lesson' = [Lesson EXCEPT ![lesson_id] = None]
       /\ Repeats' = CascadeRepeats(lesson_id)
       /\ TeacherLesson' = CascadeTeacherLesson(lesson_id)
       /\ LessonPermission' = CascadeLessonPermission(lesson_id)
    /\ req' = Return(r, Ok("unit"))
    /\ UNCHANGED nextId

(***************************************************************************)
(* Date predicates (SQL functions of the schema)                           *)
(***************************************************************************)
\* day 0 of the calendar window is a Monday (WeekDay::Monday = 1)
WeekDayOf(date) == (date % 7) + 1
InRange(val, date) ==
    /\ val.start_date <= date
    /\ \A e \in val.end_date : date <= e

repeats_on_date_daily(val, date) == InRange(val, date)

repeats_on_date_weekly(val, date) ==
    /\ InRange(val, date)
    /\ WeekDayOf(date) = val.week_day
    /\ ((date - val.start_date) \div 7) % val.every = 0

\* the calendar window lies within one month: same day-of-month means same
\* day, and zero whole months lie between two of its days
repeats_on_date_monthly(val, date) ==
    /\ InRange(val, date)
    /\ date = val.start_date
    /\ 0 % val.every = 0

\* occurs_at BETWEEN $1 AND $1 + 1: from midnight of the date up to and
\* including midnight of the next day
single_between(val, date) ==
    \/ val.occurs_at.date = date
    \/ val.occurs_at.date = date + 1 /\ val.occurs_at.time = "00:00:00"

RowSelected(k, val, date) ==
    CASE k = "singles" -> single_between(val, date)
      [] k = "daily" -> repeats_on_date_daily(val, date)
      [] k = "weekly" -> repeats_on_date_weekly(val, date)
      [] k = "monthly" -> repeats_on_date_monthly(val, date)

(***************************************************************************)
(* Occurrence resolver: Lesson::for_date                                   *)
(***************************************************************************)
\* the ids of the UNION of the four SELECT DISTINCT lesson_id
DateIds(r, date) ==
    {l \in AnyLessonID : \E k \in KindSet : \E row \in VisibleRows(r, k, l) :
                          RowSelected(k, row.val, date)}

\* the id query with its WHERE is_read_permission(...) filter left out
SelectIds_unfiltered(r, date, accounts) == DateIds(r, date)

\* the id query of for_date
SelectIds(r, date, accounts) ==
    {l \in DateIds(r, date) : is_read_permission(lesson_permission_for(r, l, accounts))}

\* where for_date goes when `ids` are left to hydrate
ForDateLoop(ids) == IF ids = {} THEN "for_date:commit" ELSE "for_date:base"

for_date_ids(r) ==
    /\ req[r].pc = "for_date:ids"
    /\ LET ids == SelectIds(r, req[r].args.date, req[r].args.account_id) IN
       req' = [req EXCEPT ![r].acc.ids = ids,
                          ![r].acc.res = <<>>,
                          ![r].pc = ForDateLoop(ids)]
    /\ UNCHANGED <<db, nextId>>

\* the loop takes the next id (the order of the id rows is unspecified)
for_date_base(r) ==
    /\ req[r].pc = "for_date:base"
    /\ \E lesson_id \in req[r].acc.ids :
          LET base == VisibleBase(r, lesson_id) IN
          IF base = None
          THEN req' = [req EXCEPT ![r].acc.ids = @ \ {lesson_id},
                                  ![r].pc = ForDateLoop(req[r].acc.ids \ {lesson_id})]
          ELSE req' = [req EXCEPT ![r].acc.id = lesson_id,
                                  ![r].acc.base = base,
                                  ![r].acc.k = 1,
                                  ![r].pc = "for_date:repeats"]
    /\ UNCHANGED <<db, nextId>>

\* a hydration that leaves the recurrence collections empty
for_date_repeats_unhydrated(r) ==
    /\ req[r].pc = "for_date:repeats"
    /\ req' = [req EXCEPT ![r].acc.reps[Kinds[req[r].acc.k]] = {},
                          ![r].acc.k = IF @ < Len(Kinds) THEN @ + 1 ELSE 0,
                          ![r].pc = IF req[r].acc.k < Len(Kinds)
                                    THEN "for_date:repeats" ELSE "for_date:teachers"]
    /\ UNCHANGED <<db, nextId>>

for_date_repeats(r) ==
    /\ req[r].pc = "for_date:repeats"
    /\ LET k == Kinds[req[r].acc.k]
           rows == of_lesson_in_transaction(r, k, req[r].acc.id)
       IN req' = [req EXCEPT ![r].acc.reps[k] = rows,
                             ![r].acc.k = IF @ < Len(Kinds) THEN @ + 1 ELSE 0,
                             ![r].pc = IF req[r].acc.k < Len(Kinds)
                                       THEN "for_date:repeats" ELSE "for_date:teachers"]
    /\ UNCHANGED <<db, nextId>>

for_date_teachers(r) ==
    /\ req[r].pc = "for_date:teachers"
    /\ LET lesson_id == req[r].acc.id
           teachers == teachers_of_lesson_by_id_in_transaction(r, lesson_id)
           base == CHOOSE b \in req[r].acc.base : TRUE
           lesson == MakeLesson(lesson_id, base, req[r].acc.reps, teachers)
           ids == req[r].acc.ids \ {lesson_id}
       IN req' = [req EXCEPT ![r].acc = [NoAcc EXCEPT !.ids = ids,
                                                      !.res = Append(req[r].acc.res, lesson)],
                             ![r].pc = ForDateLoop(ids)]
    /\ UNCHANGED <<db, nextId>>

for_date_commit(r) ==
    /\ req[r].pc = "for_date:commit"
    /\ req' = Return(r, Ok(req[r].acc.res))
    /\ UNCHANGED <<db, nextId>>

(***************************************************************************)
(* Writers of grants and teacher links outside the aggregate manager       *)
(***************************************************************************)
\* the sharing feature: one grant row per (lesson, account), replaced in place
save_permission(r) ==
    /\ req[r].pc = "save_permission"
    /\ LET lesson_id == req[r].args.lesson_id
           grant == [lesson_id |-> lesson_id,
                     account_id |-> CHOOSE a \in req[r].args.account_id : TRUE,
                     permission_type |-> req[r].args.permission_type]
       IN IF Lesson[lesson_id] = None
          THEN /\ req' = Return(r, Failure(r, "ForeignKeyViolation"))
               /\ UNCHANGED LessonPermission
          ELSE /\ LessonPermission' =
                     {g \in LessonPermission :
                         ~(g.lesson_id = lesson_id /\ g.account_id = grant.account_id)}
                     \cup {grant}
               /\ req' = Return(r, Ok("unit"))
    /\ UNCHANGED <<Lesson, Repeats, TeacherLesson, nextId>>

\* a teacher is linked to a lesson
add_teacher(r) ==
    /\ req[r].pc = "add_teacher"
    /\ LET lesson_id == req[r].args.lesson_id IN
       IF Lesson[lesson_id] = None
       THEN /\ req' = Return(r, Failure(r, "ForeignKeyViolation"))
            /\ UNCHANGED TeacherLesson
       ELSE /\ TeacherLesson' = TeacherLesson \cup
                   {[lesson_id |-> lesson_id, teacher_id |-> t] : t \in TeacherID}
            /\ req' = Return(r, Ok("unit"))
    /\ UNCHANGED <<Lesson, Repeats, LessonPermission, nextId>>

(***************************************************************************)
(* Inputs                                                                  *)
(***************************************************************************)
\* the recurrence rows the callers supply, per kind
SingleA == [occurs_at |-> [date |-> 0, time |-> "12:00:00"]]
SingleB == [occurs_at |-> [date |-> 1, time |-> "00:00:00"]]
DailyA == [start_date |-> 0, end_date |-> None]
WeeklyA == [start_date |-> 0, end_date |-> None, week_day |-> 2, every |-> 1]
MonthlyA == [start_date |-> 1, end_date |-> Some(1), every |-> 1]

Reps(s, d, w, m) == [k \in KindSet |-> CASE k = "singles" -> s [] k = "daily" -> d
                                          [] k = "weekly" -> w [] k = "monthly" -> m]

AllKinds == Reps({SingleA}, {DailyA}, {WeeklyA}, {MonthlyA})

\* Option<T> over a set of values
Option(S) == {None} \cup {Some(x) : x \in S}

CreateCall(title, description, reps) ==
    [op |-> "create",
     args |-> [NoArgs EXCEPT !.title = title, !.description = description, !.reps = reps]]
ByIdCall(lesson_id) ==
    [op |-> "by_id", args |-> [NoArgs EXCEPT !.lesson_id = lesson_id]]
UpdateCall(lesson_id, title, description, reps) ==
    [op |-> "update",
     args |-> [NoArgs EXCEPT !.lesson_id = lesson_id, !.title = title,
                             !.description = description, !.reps = reps]]
DeleteCall(lesson_id) ==
    [op |-> "delete", args |-> [NoArgs EXCEPT !.lesson_id = lesson_id]]
ForDateCall(date) ==
    [op |-> "for_date", args |-> [NoArgs EXCEPT !.date = date]]
SavePermissionCall(lesson_id, account_id, permission_type) ==
    [op |-> "save_permission",
     args |-> [NoArgs EXCEPT !.lesson_id = lesson_id, !.account_id = Some(account_id),
                             !.permission_type = permission_type]]
AddTeacherCall(lesson_id) ==
    [op |-> "add_teacher", args |-> [NoArgs EXCEPT !.lesson_id = lesson_id]]

\* position of request r in the order of arrival
Position(r) == CHOOSE i \in DOMAIN RequestOrder : RequestOrder[i] = r

\* every Create over one row per kind, then Reads
CreateThenReadCalls(r, headers) ==
    CASE Position(r) = 1 /\ headers \in AccountID ->
            {CreateCall(t, d, Reps(s, dl, w, m)) :
                t \in Titles, d \in Option(Descriptions),
                s \in SUBSET {SingleA}, dl \in SUBSET {DailyA},
                w \in SUBSET {WeeklyA}, m \in SUBSET {MonthlyA}}
      [] Position(r) > 1 /\ headers = "a1" -> {ByIdCall(l) : l \in AnyLessonID}
      [] OTHER -> {}

\* a Create, then every Update of the first lesson id, then a Read of it
CreateUpdateReadCalls(r, headers) ==
    CASE Position(r) = 1 /\ headers = "a1" ->
            {CreateCall("t1", None, NoRows),
             CreateCall("t1", Some("d1"), AllKinds),
             CreateCall("t1", None, Reps({SingleA}, {}, {WeeklyA}, {})),
             CreateCall("t2", Some("d1"), Reps({}, {DailyA}, {}, {MonthlyA}))}
      [] Position(r) = 2 /\ headers = "a1" ->
            {UpdateCall(1, t, d, Reps(s, dl, w, m)) :
                t \in Option(Titles), d \in Option(Option(Descriptions)),
                s \in Option(SUBSET {SingleB}), dl \in Option(SUBSET {DailyA}),
                w \in Option(SUBSET {WeeklyA}), m \in Option(SUBSET {MonthlyA})}
      [] Position(r) = 3 /\ headers = "a1" -> {ByIdCall(1)}
      [] OTHER -> {}

\* a few calls of every operation, by two accounts
SmallCallsBy(headers) ==
    CASE headers = "a1" ->
            {CreateCall("t1", None, NoRows),
             CreateCall("t1", Some("d1"), Reps({SingleB}, {}, {}, {})),
             CreateCall("t2", None, AllKinds)}
            \cup {ByIdCall(l) : l \in AnyLessonID}
            \cup {UpdateCall(l, Some("t2"), None, NoRows) : l \in AnyLessonID}
            \cup {UpdateCall(l, None, None, [NoRows EXCEPT !["singles"] = Some({})]) :
                     l \in AnyLessonID}
            \cup {UpdateCall(l, None, None, [NoRows EXCEPT !["daily"] = Some({DailyA})]) :
                     l \in AnyLessonID}
            \cup {DeleteCall(l) : l \in AnyLessonID}
            \cup {ForDateCall(d) : d \in Dates}
            \cup {SavePermissionCall(1, "a2", p) : p \in {"Read", "ReadWrite"}}
            \cup {AddTeacherCall(1)}
      [] headers = "a2" ->
            {CreateCall("t2", None, AllKinds),
             UpdateCall(1, Some("t2"), None, NoRows),
             DeleteCall(1)}
            \cup {ForDateCall(d) : d \in Dates}
      [] OTHER -> {}

(***************************************************************************)
(* Specifications                                                          *)
(***************************************************************************)
by_id_statement(r) ==
    \/ by_id_base(r) \/ by_id_teachers(r) \/ by_id_repeats(r) \/ by_id_commit(r)
create_statement(r) ==
    \/ create_base(r) \/ create_repeats(r) \/ create_permission(r) \/ create_commit(r)
update_statement(r) ==
    \/ update_base(r) \/ update_delete(r) \/ update_insert(r) \/ update_commit(r)
for_date_statement(r) ==
    \/ for_date_ids(r) \/ for_date_base(r) \/ for_date_repeats(r)
    \/ for_date_teachers(r) \/ for_date_commit(r)

\* requests are served one after the other; a few calls of every operation,
\* none of which meets a storage failure
Next ==
    \/ \E r \in Requests, h \in Credentials, n \in HandleCounts : Quiet /\ call(r, h, n)
    \/ \E r \in Requests : req[r].pc = "forwarded" /\
          \E inv \in SmallCallsBy(req[r].headers) : Invoke(r, inv)
    \/ \E r \in Requests : by_id_statement(r)
    \/ \E r \in Requests : create_statement(r)
    \/ \E r \in Requests : update_statement(r)
    \/ \E r \in Requests : delete(r)
    \/ \E r \in Requests : for_date_statement(r)
    \/ \E r \in Requests : save_permission(r)
    \/ \E r \in Requests : add_teacher(r)

Spec == Init /\ [][Next]_vars

\* requests are served one after the other: a Create, then Reads
NextCreate ==
    \/ \E r \in Requests, h \in Credentials : Quiet /\ call(r, h, SoleHandle)
    \/ \E r \in Requests : req[r].pc = "forwarded" /\
          \E inv \in CreateThenReadCalls(r, req[r].headers) : Invoke(r, inv)
    \/ \E r \in Requests : by_id_statement(r)
    \/ \E r \in Requests : create_statement(r)
    \/ \E r \in Requests : StorageError(r)

SpecCreate == Init /\ [][NextCreate]_vars

\* requests are served one after the other: a Create, an Update in which
\* any storage call can fail, a Read
NextUpdate ==
    \/ \E r \in Requests, h \in Credentials : Quiet /\ call(r, h, SoleHandle)
    \/ \E r \in Requests : req[r].pc = "forwarded" /\
          \E inv \in CreateUpdateReadCalls(r, req[r].headers) : Invoke(r, inv)
    \/ \E r \in Requests : by_id_statement(r)
    \/ \E r \in Requests : create_statement(r)
    \/ \E r \in Requests : update_statement(r)
    \/ \E r \in Requests : req[r].op = "update" /\ StorageError(r)

SpecUpdate == Init /\ [][NextUpdate]_vars

\* requests overlap: a Create; an Update or a Delete of the first lesson;
\* a Read, a resolveForDate or another Update
OverlappingCalls(r, headers) ==
    CASE Position(r) = 1 /\ headers = "a1" ->
            {CreateCall("t1", None, Reps({SingleA}, {DailyA}, {}, {}))}
      [] Position(r) = 2 /\ headers = "a1" ->
            {UpdateCall(1, Some("t2"), None, [NoRows EXCEPT !["singles"] = Some({SingleB})]),
             UpdateCall(1, None, None, [NoRows EXCEPT !["singles"] = Some({}),
                                                      !["daily"] = Some({})]),
             UpdateCall(1, None, Some(Some("d1")),
                        [NoRows EXCEPT !["weekly"] = Some({WeeklyA})]),
             DeleteCall(1), AddTeacherCall(1)}
      [] Position(r) = 3 /\ headers = "a1" ->
            {ByIdCall(1), ForDateCall(0), DeleteCall(1),
             UpdateCall(1, None, None, [NoRows EXCEPT !["singles"] = Some({SingleA})])}
      [] Position(r) = 3 /\ headers = "a2" -> {ForDateCall(0)}
      [] OTHER -> {}

\* requests are served concurrently; a storage call of a Create or of an
\* Update can fail
NextOverlap ==
    \/ \E r \in Requests, h \in Credentials : call(r, h, SoleHandle)
    \/ \E r \in Requests : req[r].pc = "forwarded" /\
          \E inv \in OverlappingCalls(r, req[r].headers) : Invoke(r, inv)
    \/ \E r \in Requests : by_id_statement(r)
    \/ \E r \in Requests : create_statement(r)
    \/ \E r \in Requests : update_statement(r)
    \/ \E r \in Requests : update_resume(r)
    \/ \E r \in Requests : delete(r)
    \/ \E r \in Requests : for_date_statement(r)
    \/ \E r \in Requests : add_teacher(r)
    \/ \E r \in Requests : req[r].op \in {"create", "update"} /\ StorageError(r)

SpecOverlap == Init /\ [][NextOverlap]_vars

(***************************************************************************)
(* Vocabulary of the properties                                            *)
(***************************************************************************)
IsDone(r, op) == req[r].pc = "done" /\ req[r].op = op
Outcome(r) == CHOOSE x \in req[r].result : TRUE
Succeeded(r, op) == IsDone(r, op) /\ Outcome(r).ok
Failed(r, op) == IsDone(r, op) /\ ~Outcome(r).ok
Val(r) == Outcome(r).val
Target(r) == req[r].args.lesson_id

\* request a had finished when request b was handed to its handler
Before(a, b) == req[b].op # "none" /\ a \in req[b].after

\* no request was handed to its handler after r finished
Latest(r) == Finished(r) /\ \A q \in Requests \ {r} : ~Before(r, q)

\* some other call on lesson id ran between the end of a and the start of b
Intervening(a, b, id) ==
    \E q \in Requests \ {a, b} :
        /\ req[q].op # "none"
        /\ Target(q) = id
        /\ ~Before(q, a)
        /\ ~Before(b, q)

\* the recurrence collections of a Lesson value, by kind
RepsOf(lesson) == [k \in KindSet |-> lesson[k]]

(***************************************************************************)
(* C10: a request whose credential is missing or fails verification gets   *)
(* an authentication error and the wrapped service is never called for it: *)
(* no request is forwarded and no operation of the aggregate manager or    *)
(* the resolver is ever started on its behalf.                             *)
(***************************************************************************)
Unverified(r) == ~authenticate_claim_from_headers(req[r].headers).ok

C10_UnauthenticatedNeverForwarded ==
    \A r \in Requests :
        (req[r].pc # "new" /\ req[r].headers \notin AccountID) =>
            /\ req[r].pc = "rejected"
            /\ req[r].response = Some("AuthError")
            /\ req[r].forwarded = None
            /\ req[r].op = "none"
            /\ req[r].result = None

C10_Witness ==
    \E r, q \in Requests :
        /\ req[r].pc = "rejected" /\ req[r].headers = "missing"
        /\ req[q].pc = "rejected" /\ req[q].headers = "invalid"

(***************************************************************************)
(* C8: once Delete(lesson_id) has completed, every Read of that id that    *)
(* starts afterwards returns "not found", and no resolveForDate that       *)
(* starts afterwards, for any date and account, returns a lesson with that *)
(* id.                                                                     *)
(***************************************************************************)
ReturnedIds(r) == {Val(r)[i].id : i \in DOMAIN Val(r)}

C8_DeletedStaysGone ==
    \A rd, rr \in Requests :
        (Succeeded(rd, "delete") /\ Before(rd, rr)) =>
            /\ (Succeeded(rr, "by_id") /\ Target(rr) = Target(rd)) => Val(rr) = None
            /\ Succeeded(rr, "for_date") => Target(rd) \notin ReturnedIds(rr)

\* a lesson with rows matching day 0 was created, deleted and then read
C8_Witness ==
    \E rc, rd, rr \in Requests :
        /\ Succeeded(rc, "create") /\ Val(rc).daily # {}
        /\ Succeeded(rd, "delete") /\ Target(rd) = Val(rc).id /\ Before(rc, rd)
        /\ Before(rd, rr)
        /\ \/ Succeeded(rr, "by_id") /\ Target(rr) = Target(rd) /\ Val(rr) = None
           \/ Succeeded(rr, "for_date") /\ Val(rr) = <<>>
              /\ req[rr].args.account_id = req[rc].args.owner

(***************************************************************************)
(* C9: resolveForDate(date, account) never returns a lesson for which the  *)
(* account holds no grant, even when a recurrence row of the lesson        *)
(* matches the date, and it returns every existing lesson that has a       *)
(* recurrence row occurring on the date and for which the account holds a  *)
(* read or a read-write grant.                                             *)
(***************************************************************************)
\* section 4.3 of the specification: the row occurs on the date
OccursOn(k, val, date) ==
    CASE k = "singles" -> val.occurs_at.date = date
      [] k = "daily" ->
            val.start_date <= date /\ \A e \in val.end_date : date <= e
      [] k = "weekly" ->
            /\ val.start_date <= date /\ \A e \in val.end_date : date <= e
            /\ WeekDayOf(date) = val.week_day
            /\ ((date - val.start_date) \div 7) % val.every = 0
      [] k = "monthly" ->
            /\ val.start_date <= date /\ \A e \in val.end_date : date <= e
            /\ date = val.start_date

GrantsOf(lesson_id, accounts) ==
    {g.permission_type : g \in {x \in LessonPermission :
                                   x.lesson_id = lesson_id /\ x.account_id \in accounts}}

HasOccurrence(lesson_id, date) ==
    \E k \in KindSet : \E row \in Repeats[k] :
        row.lesson_id = lesson_id /\ OccursOn(k, row.val, date)

C9_ResolveRespectsPermission ==
    \A r \in Requests :
        (Succeeded(r, "for_date") /\ Latest(r)) =>
            /\ \A l \in ReturnedIds(r) : GrantsOf(l, req[r].args.account_id) # {}
            /\ \A l \in AnyLessonID :
                  ( /\ Lesson[l] # None
                    /\ HasOccurrence(l, req[r].args.date)
                    /\ GrantsOf(l, req[r].args.account_id) \cap {"Read", "ReadWrite"} # {} )
                  => l \in ReturnedIds(r)

\* a lesson occurs on the date: the account without a grant gets nothing
C9_Witness ==
    \E r \in Requests : \E l \in LessonID :
        /\ Succeeded(r, "for_date") /\ Latest(r)
        /\ Lesson[l] # None
        /\ HasOccurrence(l, req[r].args.date)
        /\ GrantsOf(l, req[r].args.account_id) = {}
        /\ Val(r) = <<>>

\* a lesson occurs on the date: the account with a read grant gets it
C9_WitnessRead ==
    \E r \in Requests : \E l \in LessonID :
        /\ Succeeded(r, "for_date") /\ Latest(r)
        /\ GrantsOf(l, req[r].args.account_id) = {"Read"}
        /\ l \in ReturnedIds(r)

(***************************************************************************)
(* C5: an Update of a lesson id that has no base row returns "not found",  *)
(* not success, whatever arguments are present, and persists nothing.      *)
(***************************************************************************)
\* the id was never generated, so no base row for it has ever existed
NeverCreated(lesson_id) == lesson_id = UnknownId

C5_UpdateOfMissingIsNotFound ==
    \A r \in Requests :
        (IsDone(r, "update") /\ NeverCreated(Target(r))) =>
            /\ ~Outcome(r).ok
            /\ Outcome(r).val.error = "NotFound"

\* what does hold: such an Update leaves every table empty of that id
C5_UpdateOfMissingPersistsNothing ==
    \A r \in Requests :
        (IsDone(r, "update") /\ NeverCreated(Target(r))) =>
            /\ Lesson[Target(r)] = None
            /\ \A k \in KindSet : \A row \in Repeats[k] : row.lesson_id # Target(r)

(***************************************************************************)
(* C2: for every Create input, a Read of the returned id with no call on   *)
(* that lesson in between returns a Lesson equal to the one Create         *)
(* returned, which carries the title, the description and the four         *)
(* recurrence collections that were passed in and an empty teacher list,   *)
(* and the grant table holds exactly one grant for the lesson: read-write  *)
(* for the owner.                                                          *)
(***************************************************************************)
ReadsBack(rc, rr) ==
    /\ Succeeded(rc, "create")
    /\ Succeeded(rr, "by_id")
    /\ Before(rc, rr)
    /\ Target(rr) = Val(rc).id
    /\ ~Intervening(rc, rr, Val(rc).id)

C2_ReadAfterCreate ==
    \A rc, rr \in Requests :
        ReadsBack(rc, rr) =>
            /\ Val(rr) = Some(Val(rc))
            /\ Val(rc).title = req[rc].args.title
            /\ Val(rc).description = req[rc].args.description
            /\ RepsOf(Val(rc)) = req[rc].args.reps
            /\ Val(rc).teachers = {}
            /\ req[rc].args.owner = {req[rc].headers}
            /\ {g \in LessonPermission : g.lesson_id = Val(rc).id}
                  = {[lesson_id |-> Val(rc).id, account_id |-> req[rc].headers,
                      permission_type |-> "ReadWrite"]}

\* a lesson with a description and rows of every kind is read back
C2_Witness ==
    \E rc, rr \in Requests :
        /\ ReadsBack(rc, rr)
        /\ Val(rc).description # None
        /\ \A k \in KindSet : Val(rc)[k] # {}

(***************************************************************************)
(* C3, C4, C6 speak of a lesson that a Create made, one Update of it and a *)
(* Read of it afterwards.                                                  *)
(***************************************************************************)
\* rc created the lesson, ru then updated it, rr then read it
UpdatedThenRead(rc, ru, rr) ==
    /\ Succeeded(rc, "create")
    /\ IsDone(ru, "update") /\ Target(ru) = Val(rc).id /\ Before(rc, ru)
    /\ Succeeded(rr, "by_id") /\ Target(rr) = Val(rc).id /\ Before(ru, rr)
    /\ ~Intervening(rc, ru, Val(rc).id)
    /\ ~Intervening(ru, rr, Val(rc).id)

\* the Lesson the Read returned
ReadLesson(rr) == CHOOSE lesson \in Val(rr) : TRUE

(***************************************************************************)
(* C3: after an Update that supplies a recurrence collection (an empty one *)
(* included), a Read returns exactly the supplied set for that kind,       *)
(* whatever rows the lesson had, and returns every kind the Update left    *)
(* out as it was before.                                                   *)
(***************************************************************************)
C3_PresentCollectionReplaced ==
    \A rc, ru, rr \in Requests :
        (UpdatedThenRead(rc, ru, rr) /\ Outcome(ru).ok) =>
            /\ Val(rr) # None
            /\ \A k \in KindSet :
                  LET supplied == req[ru].args.reps[k] IN
                  /\ supplied # None => Some(ReadLesson(rr)[k]) = supplied
                  /\ (supplied = None /\ \E j \in KindSet : req[ru].args.reps[j] # None)
                        => ReadLesson(rr)[k] = Val(rc)[k]

\* singles = [] clears the single occurrences and keeps the other kinds
C3_Witness ==
    \E rc, ru, rr \in Requests :
        /\ UpdatedThenRead(rc, ru, rr) /\ Outcome(ru).ok
        /\ \A k \in KindSet : Val(rc)[k] # {}
        /\ req[ru].args.reps = [NoRows EXCEPT !["singles"] = Some({})]
        /\ ReadLesson(rr).singles = {}
        /\ ReadLesson(rr).daily # {}

(***************************************************************************)
(* C4: after an Update, a Read shows every field and every recurrence kind *)
(* that the Update left out as it was before the call; with title and      *)
(* description both absent the base row is untouched, and with every       *)
(* argument absent nothing changes.                                        *)
(***************************************************************************)
C4_AbsentLeftUnchanged ==
    \A rc, ru, rr \in Requests :
        (UpdatedThenRead(rc, ru, rr) /\ Outcome(ru).ok) =>
            /\ Val(rr) # None
            /\ req[ru].args.title = None => ReadLesson(rr).title = Val(rc).title
            /\ req[ru].args.description = None
                  => ReadLesson(rr).description = Val(rc).description
            /\ \A k \in KindSet :
                  req[ru].args.reps[k] = None => ReadLesson(rr)[k] = Val(rc)[k]
            /\ ReadLesson(rr).teachers = Val(rc).teachers

\* only the title is supplied: description and all rows stay
C4_Witness ==
    \E rc, ru, rr \in Requests :
        /\ UpdatedThenRead(rc, ru, rr) /\ Outcome(ru).ok
        /\ req[ru].args.title = Some("t2")
        /\ req[ru].args.description = None
        /\ req[ru].args.reps = NoRows
        /\ Val(rc).description # None
        /\ \A k \in KindSet : Val(rc)[k] # {}
        /\ ReadLesson(rr) = [Val(rc) EXCEPT !.title = "t2"]

(***************************************************************************)
(* C6: if a storage call inside Update fails (the base UPDATE, a DELETE or *)
(* an INSERT of a recurrence collection, or the commit), the Update has no *)
(* effect: a Read returns the lesson as it was before the call, also for   *)
(* the collections whose replacement had run before the failure.           *)
(***************************************************************************)
C6_FailedUpdateHasNoEffect ==
    \A rc, ru, rr \in Requests :
        (UpdatedThenRead(rc, ru, rr) /\ ~Outcome(ru).ok) => Val(rr) = Some(Val(rc))

\* the commit failed after the title was set and the singles were replaced
C6_Witness ==
    \E rc, ru, rr \in Requests :
        /\ UpdatedThenRead(rc, ru, rr)
        /\ ~Outcome(ru).ok
        /\ Outcome(ru).val.at = "update:commit"
        /\ req[ru].args.title = Some("t2")
        /\ req[ru].args.reps["singles"] = Some({SingleB})
        /\ Val(rc).singles = {SingleA}
        /\ Val(rr) = Some(Val(rc))

(***************************************************************************)
(* C1: Create is all-or-nothing. If the base insert, a recurrence insert,  *)
(* the owner grant insert or the commit fails, no Lesson row, recurrence   *)
(* row or grant of that Create is persisted; before the commit no other    *)
(* transaction observes the lesson's base row, recurrence rows or grant;   *)
(* once Create has returned, all of them are there.                        *)
(***************************************************************************)
\* the ids that a Create which returned successfully has committed
CreatedIds == {Val(rc).id : rc \in {r \in Requests : Succeeded(r, "create")}}

\* the lesson ids of which a Read or a resolveForDate has seen some row
Observed(r) ==
    CASE req[r].op = "by_id" ->
            IF \/ req[r].acc.base # None
               \/ \E k \in KindSet : req[r].acc.reps[k] # {}
               \/ Succeeded(r, "by_id") /\ Val(r) # None
            THEN {Target(r)} ELSE {}
      [] req[r].op = "for_date" ->
            req[r].acc.ids
              \cup {req[r].acc.res[i].id : i \in DOMAIN req[r].acc.res}
              \cup (IF Succeeded(r, "for_date") THEN ReturnedIds(r) ELSE {})
      [] OTHER -> {}

\* no Update or Delete of the lesson has been started
Untouched(lesson_id) ==
    \A q \in Requests : req[q].op \in {"update", "delete"} => Target(q) # lesson_id

C1_CreateAllOrNothing ==
    /\ \A l \in AnyLessonID : Lesson[l] # None => l \in CreatedIds
    /\ \A k \in KindSet : \A row \in Repeats[k] : row.lesson_id \in CreatedIds
    /\ \A g \in LessonPermission : g.lesson_id \in CreatedIds
    /\ \A r \in Requests : Observed(r) \subseteq CreatedIds
    /\ \A rc \in Requests :
          (Succeeded(rc, "create") /\ Untouched(Val(rc).id)) =>
              /\ Lesson[Val(rc).id] = Some([title |-> Val(rc).title,
                                            description |-> Val(rc).description])
              /\ \A k \in KindSet :
                    {row.val : row \in {x \in Repeats[k] : x.lesson_id = Val(rc).id}}
                        = req[rc].args.reps[k]
              /\ \E g \in LessonPermission : g.lesson_id = Val(rc).id

\* the commit of a Create with recurrence rows failed, a Read of the id it
\* had generated ran meanwhile and found nothing, and nothing is stored
C1_Witness ==
    \E rc, rr \in Requests :
        /\ Failed(rc, "create")
        /\ Outcome(rc).val.at = "create:commit"
        /\ req[rc].args.reps["singles"] # {}
        /\ Succeeded(rr, "by_id")
        /\ Target(rr) # UnknownId
        /\ ~Before(rc, rr)
        /\ Val(rr) = None
        /\ \A l \in AnyLessonID : Lesson[l] = None
        /\ \A k \in KindSet : Repeats[k] = {}
        /\ LessonPermission = {}

(***************************************************************************)
(* C7: a Read that runs concurrently with an Update of the same lesson     *)
(* returns either the lesson entirely as it was before the Update or       *)
(* entirely as it is after the Update, never base fields from one side     *)
(* with a recurrence collection from the other, nor some collections old   *)
(* and others new.                                                         *)
(***************************************************************************)
\* the lesson with the present arguments of an Update applied
Updated(lesson, args) ==
    [id |-> lesson.id,
     title |-> IF args.title = None THEN lesson.title
               ELSE CHOOSE t \in args.title : TRUE,
     description |-> IF args.description = None THEN lesson.description
                     ELSE CHOOSE d \in args.description : TRUE,
     singles |-> IF args.reps["singles"] = None THEN lesson.singles
                 ELSE CHOOSE x \in args.reps["singles"] : TRUE,
     weekly |-> IF args.reps["weekly"] = None THEN lesson.weekly
                ELSE CHOOSE x \in args.reps["weekly"] : TRUE,
     daily |-> IF args.reps["daily"] = None THEN lesson.daily
               ELSE CHOOSE x \in args.reps["daily"] : TRUE,
     monthly |-> IF args.reps["monthly"] = None THEN lesson.monthly
                 ELSE CHOOSE x \in args.reps["monthly"] : TRUE,
     teachers |-> lesson.teachers]

\* rc created the lesson; afterwards one Update ru and one Read rr of it
\* were started, in any order and possibly overlapping
UpdateAndRead(rc, ru, rr) ==
    /\ Succeeded(rc, "create")
    /\ req[ru].op = "update" /\ Target(ru) = Val(rc).id /\ Before(rc, ru)
    /\ Succeeded(rr, "by_id") /\ Target(rr) = Val(rc).id /\ Before(rc, rr)
    /\ Requests = {rc, ru, rr}

C7_ReadSeesUpdateWholeOrNotAtAll ==
    \A rc, ru, rr \in Requests :
        UpdateAndRead(rc, ru, rr) =>
            \/ Val(rr) = Some(Val(rc))
            \/ Val(rr) = Some(Updated(Val(rc), req[ru].args))

\* what does hold: every field the Read returns is the old or the new one
C7_ReadSeesOldOrNewFieldwise ==
    \A rc, ru, rr \in Requests :
        UpdateAndRead(rc, ru, rr) =>
            /\ Val(rr) # None
            /\ \A f \in {"id", "title", "description", "teachers"} \cup KindSet :
                  ReadLesson(rr)[f] \in {Val(rc)[f], Updated(Val(rc), req[ru].args)[f]}

(***************************************************************************)
(* C11: for every request whose credential verifies, the account id and    *)
(* the claim are attached to the request's scoped state before the wrapped *)
(* service is called, the request handed to the wrapped service is the one *)
(* that carries the attachment, and the wrapped service is never called on *)
(* a request without the attached identity.                                *)
(***************************************************************************)
\* the identity the middleware attaches for a verified credential
Identity(headers) ==
    {[account_id |-> headers], [claim |-> [inner |-> [account_id |-> headers]]]}

C11_IdentityAttachedBeforeService ==
    \A r \in Requests :
        /\ req[r].forwarded # None =>
              /\ req[r].headers \in AccountID
              /\ req[r].extensions = Identity(req[r].headers)
              /\ req[r].forwarded = Some(ServiceRequest(req[r].headers, req[r].extensions))
        /\ req[r].op # "none" =>
              /\ req[r].forwarded # None
              /\ AccountOf(r) = {req[r].headers}
        /\ req[r].op = "create" => req[r].args.owner = {req[r].headers}
        /\ req[r].op = "for_date" => req[r].args.account_id = {req[r].headers}

\* the handler of a request of account a2 created a lesson owned by a2
C11_Witness ==
    \E r \in Requests :
        /\ Succeeded(r, "create")
        /\ req[r].headers = "a2"
        /\ req[r].args.owner = {"a2"}
        /\ \E g \in LessonPermission : g.lesson_id = Val(r).id /\ g.account_id = "a2"

(***************************************************************************)
(* C12: an Update or a Delete of an existing lesson by an account whose    *)
(* level for the lesson is below read-write (none or read) is rejected     *)
(* with a permission error before any mutation, and no step changes or     *)
(* removes a stored row of a lesson on behalf of an account that does not  *)
(* hold a read-write grant for it.                                         *)
(***************************************************************************)
\* the stored rows of lesson l
StoredRows(l) ==
    <<Lesson[l], [k \in KindSet |-> {row \in Repeats[k] : row.lesson_id = l}]>>

\* request r is an Update or a Delete of lesson l with its operation running
Writing(r, l) ==
    /\ req[r].op \in {"update", "delete"}
    /\ Target(r) = l
    /\ Active(r)

C12_WritesNeedReadWrite ==
    [][ /\ \A r \in Requests :
              ( /\ req[r].pc = "forwarded"
                /\ req'[r].op \in {"update", "delete"}
                /\ Lesson[req'[r].args.lesson_id] # None
                /\ "ReadWrite" \notin GrantsOf(req'[r].args.lesson_id, {req[r].headers}) )
              => /\ req'[r].pc = "done"
                 /\ req'[r].result = Err([error |-> "PermissionDenied",
                                          at |-> "forwarded", k |-> 0])
                 /\ db' = db
        /\ \A l \in LessonID :
              (Lesson[l] # None /\ StoredRows(l)' # StoredRows(l)) =>
                  \E r \in Requests :
                      /\ Writing(r, l)
                      /\ "ReadWrite" \in GrantsOf(l, {req[r].headers}) ]_vars

\* an account holding only a read grant had its Update rejected and the
\* lesson is as it was created
C12_Witness ==
    \E rc, ru \in Requests :
        /\ Succeeded(rc, "create")
        /\ Failed(ru, "update")
        /\ Target(ru) = Val(rc).id
        /\ Outcome(ru).val.error = "PermissionDenied"
        /\ GrantsOf(Val(rc).id, {req[ru].headers}) = {"Read"}
        /\ Lesson[Val(rc).id] = Some([title |-> Val(rc).title,
                                      description |-> Val(rc).description])

(***************************************************************************)
(* C13: when two Updates of the same lesson run concurrently and both      *)
(* commit, every recurrence collection supplied by either call ends up     *)
(* equal to exactly the set one of the two calls supplied, never a union   *)
(* or mixture of rows from both.                                           *)
(***************************************************************************)
\* the committed recurrence values of kind k of lesson l
Committed(k, l) == {row.val : row \in {x \in Repeats[k] : x.lesson_id = l}}

\* ra and rb are Updates of the lesson rc created; they overlapped and both
\* committed, and nothing else touched the lesson
ConcurrentUpdates(rc, ra, rb) ==
    /\ Succeeded(rc, "create")
    /\ ra # rb
    /\ Requests = {rc, ra, rb}
    /\ \A ru \in {ra, rb} :
          /\ Succeeded(ru, "update")
          /\ Target(ru) = Val(rc).id
          /\ Before(rc, ru)
    /\ ~Before(ra, rb)
    /\ ~Before(rb, ra)

C13_LastWriterWinsPerCollection ==
    \A rc, ra, rb \in Requests :
        ConcurrentUpdates(rc, ra, rb) =>
            \A k \in KindSet :
                (req[ra].args.reps[k] # None \/ req[rb].args.reps[k] # None) =>
                    Some(Committed(k, Val(rc).id))
                        \in {req[ra].args.reps[k], req[rb].args.reps[k]} \ {None}

(***************************************************************************)
(* C14: in every committed state that any interleaving of Create, Update   *)
(* and Delete reaches, every recurrence row, teacher link and permission   *)
(* grant references a lesson whose base row exists; an Update that races   *)
(* with or follows a Delete of the lesson leaves no recurrence rows for it.*)
(***************************************************************************)
C14_RowsReferenceExistingLesson ==
    /\ \A k \in KindSet : \A row \in Repeats[k] : Lesson[row.lesson_id] # None
    /\ \A t \in TeacherLesson : Lesson[t.lesson_id] # None
    /\ \A g \in LessonPermission : Lesson[g.lesson_id] # None

\* an Update that supplied rows overlapped a Delete of its lesson, the
\* Delete won, and no row of the lesson is left
C14_Witness ==
    \E rc, rd, ru \in Requests :
        /\ Succeeded(rc, "create")
        /\ Succeeded(rd, "delete") /\ Target(rd) = Val(rc).id
        /\ Failed(ru, "update") /\ Target(ru) = Val(rc).id
        /\ Outcome(ru).val.error = "ForeignKeyViolation"
        /\ ~Before(rd, ru)
        /\ ~Before(ru, rd)
        /\ Lesson[Val(rc).id] = None
        /\ \A k \in KindSet : Committed(k, Val(rc).id) = {}

(***************************************************************************)
(* C15: in every reachable state the grant table holds at most one grant   *)
(* row per (lesson, account) pair, and every lesson a committed Create     *)
(* produced has a read-write grant for its creator from the moment its     *)
(* base row is visible.                                                    *)
(***************************************************************************)
\* at most one grant row per (lesson, account) pair
OneGrantPerPair ==
    \A g, h \in LessonPermission :
        (g.lesson_id = h.lesson_id /\ g.account_id = h.account_id) => g = h

\* request r is the Create whose commit made lesson l visible in this step
Creates(r, l) ==
    /\ req[r].pc = "create:commit"
    /\ Succeeded(r, "create")'
    /\ (Val(r).id)' = l

C15_OneGrantAndOwnerReadWrite ==
    [][ /\ OneGrantPerPair'
        /\ \A l \in LessonID :
              (Lesson[l] = None /\ Lesson'[l] # None) =>
                  \E r \in Requests :
                      /\ Creates(r, l)
                      /\ {g \in LessonPermission' : g.lesson_id = l}
                            = {[lesson_id |-> l, account_id |-> req[r].headers,
                                permission_type |-> "ReadWrite"]} ]_vars

\* a lesson with its creator's read-write grant and a read grant that was
\* shared with the other account
C15_Witness ==
    \E rc \in Requests :
        /\ Succeeded(rc, "create")
        /\ req[rc].headers = "a1"
        /\ {g \in LessonPermission : g.lesson_id = Val(rc).id}
              = {[lesson_id |-> Val(rc).id, account_id |-> "a1",
                  permission_type |-> "ReadWrite"],
                 [lesson_id |-> Val(rc).id, account_id |-> "a2",
                  permission_type |-> "Read"]}

(***************************************************************************)
(* C16: Delete is idempotent. Deleting an id that has no base row (never   *)
(* created, or already deleted) returns success, not an error, and leaves  *)
(* every table unchanged; two successive Deletes of the same id leave the  *)
(* same state as one.                                                      *)
(***************************************************************************)
\* this step is the statement of request r's Delete
DeleteStep(r) == req[r].pc = "delete" /\ req'[r].pc = "done"

C16_DeleteIsIdempotent ==
    [][ \A r \in Requests :
           (DeleteStep(r) /\ Lesson[Target(r)] = None) =>
               /\ req'[r].result = Ok("unit")
               /\ db' = db ]_vars

\* a lesson with rows was deleted twice in a row, both times with success
C16_Witness ==
    \E rc, rd, re \in Requests :
        /\ Succeeded(rc, "create") /\ Val(rc).singles # {}
        /\ Succeeded(rd, "delete") /\ Target(rd) = Val(rc).id /\ Before(rc, rd)
        /\ Succeeded(re, "delete") /\ Target(re) = Val(rc).id /\ Before(rd, re)
        /\ Lesson[Val(rc).id] = None

(***************************************************************************)
(* C17: in resolveForDate a single occurrence matches the query date       *)
(* exactly when the date component of its stored timestamp equals the      *)
(* query date: for every timestamp, also one at 00:00:00 of the day after  *)
(* the query date, the lesson is selected through its single occurrence if *)
(* and only if the timestamp falls on the query day.                       *)
(***************************************************************************)
\* lesson l exists, the account may read it, and single occurrences are
\* the only recurrence rows it has
OnlySingles(l, accounts) ==
    /\ Lesson[l] # None
    /\ GrantsOf(l, accounts) # {}
    /\ \A k \in KindSet \ {"singles"} : Committed(k, l) = {}

C17_SingleMatchesExactDay ==
    \A r \in Requests :
        (Succeeded(r, "for_date") /\ Latest(r)) =>
            \A l \in LessonID :
                OnlySingles(l, req[r].args.account_id) =>
                    (l \in ReturnedIds(r)
                        <=> \E val \in Committed("singles", l) :
                               val.occurs_at.date = req[r].args.date)

(***************************************************************************)
(* C18: every call of the authentication middleware ends in exactly one of *)
(* two outcomes, the request forwarded to the wrapped service with the     *)
(* identity attached or rejected with an authentication error; there is no *)
(* third outcome (no abort or panic while the request is rebuilt, no       *)
(* retry, no intermediate state) for any request.                          *)
(***************************************************************************)
ForwardedWithIdentity(r) ==
    /\ req[r].forwarded = Some(ServiceRequest(req[r].headers, Identity(req[r].headers)))
    /\ req[r].response = None

RejectedWithError(r) ==
    /\ req[r].pc = "rejected"
    /\ req[r].response = Some("AuthError")
    /\ req[r].forwarded = None

C18_ForwardOrRejectOrPanic ==
    \A r \in Requests :
        req[r].pc # "new" =>
            \/ ForwardedWithIdentity(r)
            \/ RejectedWithError(r)
            \/ /\ req[r].pc = "panicked"
               /\ req[r].headers \in AccountID
               /\ req[r].forwarded = None
               /\ req[r].response = None
               /\ req[r].op = "none"

(***************************************************************************)
(* C19: resolveForDate returns each qualifying lesson exactly once, also   *)
(* when several of its recurrence rows, of one kind or of different kinds, *)
(* match the date, and every returned lesson is fully hydrated: it carries *)
(* the four recurrence collections and the teacher ids that a Read of it   *)
(* returns.                                                                *)
(***************************************************************************)
\* what a Read of lesson l returns in the current state
Stored(l) ==
    {[id |-> l, title |-> b.title, description |-> b.description,
      singles |-> Committed("singles", l), weekly |-> Committed("weekly", l),
      daily |-> Committed("daily", l), monthly |-> Committed("monthly", l),
      teachers |-> {t.teacher_id : t \in {x \in TeacherLesson : x.lesson_id = l}}] :
        b \in Lesson[l]}

\* the kinds of which lesson l has a row that occurs on the date
MatchingKinds(l, date) ==
    {k \in KindSet : \E val \in Committed(k, l) : OccursOn(k, val, date)}

C19_EachLessonOnceAndHydrated ==
    \A r \in Requests :
        (Succeeded(r, "for_date") /\ Latest(r)) =>
            /\ \A i, j \in DOMAIN Val(r) : Val(r)[i].id = Val(r)[j].id => i = j
            /\ \A i \in DOMAIN Val(r) : Some(Val(r)[i]) = Stored(Val(r)[i].id)

\* a lesson with a teacher and rows of three kinds or more that occur on the
\* date is returned once, with all of them
C19_Witness ==
    \E r \in Requests : \E l \in LessonID :
        /\ Succeeded(r, "for_date") /\ Latest(r)
        /\ Cardinality(MatchingKinds(l, req[r].args.date)) >= 3
        /\ Len(Val(r)) = 1
        /\ Val(r)[1].id = l
        /\ Val(r)[1].teachers # {}
        /\ \A k \in KindSet : Val(r)[1][k] # {}

(***************************************************************************)
(* C20: Update, Read and resolveForDate never change the permission grants *)
(* or the teacher links of any lesson; an Update of one lesson never       *)
(* changes the base row or the recurrence rows of another lesson; Read and *)
(* resolveForDate change no stored row at all.                             *)
(***************************************************************************)
\* this step is a step of request r's operation op
StepOf(r, op) == req[r].op = op /\ req'[r] # req[r]

C20_Frame ==
    [][ \A r \in Requests :
           /\ (StepOf(r, "by_id") \/ StepOf(r, "for_date")) => db' = db
           /\ StepOf(r, "update") =>
                 /\ LessonPermission' = LessonPermission
                 /\ TeacherLesson' = TeacherLesson
                 /\ \A l \in AnyLessonID \ {Target(r)} : StoredRows(l)' = StoredRows(l) ]_vars

\* an Update cleared the single occurrences of one lesson while another
\* lesson kept its own, and the grants of both are in place
C20_Witness ==
    \E rc, rd, ru \in Requests :
        /\ Succeeded(rc, "create") /\ Val(rc).singles # {}
        /\ Succeeded(rd, "create") /\ Val(rd).singles # {}
        /\ rc # rd
        /\ Succeeded(ru, "update") /\ Target(ru) = Val(rc).id
        /\ Before(rc, ru) /\ Before(rd, ru)
        /\ req[ru].args.reps["singles"] = Some({})
        /\ Committed("singles", Val(rc).id) = {}
        /\ Committed("singles", Val(rd).id) = Val(rd).singles
        /\ \A l \in {Val(rc).id, Val(rd).id} : GrantsOf(l, {"a1"}) = {"ReadWrite"}
====
